---- MODULE Spec2Model ----
(***************************************************************************)
(* pydantic-htmx: the form data converter (form_data.py), the per-field    *)
(* validator (validators.py) and the schema introspector (parser.py),      *)
(* together with the part of the validation engine they call.              *)
(*                                                                         *)
(* A submitted value is a record [k, s, n]: k is the Python type of the    *)
(* value, s its characters when it is a string, n its number otherwise.    *)
(* A string is a sequence of one-character strings, so that parsing and    *)
(* formatting are computed on the characters.                              *)
(***************************************************************************)
EXTENDS FiniteSets, Integers, Sequences, TLC

VARIABLES cls, self_fields, form, op, arg, result

vars == <<cls, self_fields, form, op, arg, result>>

-----------------------------------------------------------------------------
(* Python values *)

None == [k |-> "null", s |-> <<>>, n |-> 0]
StrV(cs) == [k |-> "str", s |-> cs, n |-> 0]
IntV(i) == [k |-> "int", s |-> <<>>, n |-> i]
BoolV(b) == [k |-> "bool", s |-> <<>>, n |-> IF b THEN 1 ELSE 0]
\* a finite float, held in tenths: FloatV(855) is 85.5
FloatV(t) == [k |-> "float", s |-> <<>>, n |-> t]
\* float("inf")
FloatInf == [k |-> "float", s |-> <<"i", "n", "f">>, n |-> 1]
\* datetime.date, held as the number yyyymmdd
DateV(d) == [k |-> "date", s |-> <<>>, n |-> d]
\* any other object: object()
Obj == [k |-> "obj", s |-> <<>>, n |-> 0]
\* PydanticUndefined: FieldInfo.default of a field declared without a default
PydanticUndefined == [k |-> "undefined", s |-> <<>>, n |-> 0]

\* value is None
IsNone(v) == v.k = "null"
\* value == ""
IsEmptyStr(v) == v.k = "str" /\ v.s = <<>>
\* faulty variant: only None counts as empty
IsEmpty_none_only(v) == IsNone(v)

\* value is None or value == ""
IsEmpty(v) == IsNone(v) \/ IsEmptyStr(v)

\* the outcome of a Python expression: a value, or the exception it raised
Ok(v) == [exc |-> "none", val |-> v]
Raise(e) == [exc |-> e, val |-> None]

\* LET x == e IN F(x), with e evaluated once
Bind(e, F(_)) == CHOOSE r \in {F(x) : x \in {e}} : TRUE

-----------------------------------------------------------------------------
(* Characters *)

Digits == <<"0", "1", "2", "3", "4", "5", "6", "7", "8", "9">>

IsDigit(c) == \E i \in 1..Len(Digits) : Digits[i] = c

DigitVal(c) == (CHOOSE i \in 1..Len(Digits) : Digits[i] = c) - 1

AllDigits(cs) == \A i \in 1..Len(cs) : IsDigit(cs[i])

RECURSIVE DigitsVal(_)
DigitsVal(cs) ==
  IF cs = <<>> THEN 0
  ELSE DigitsVal(SubSeq(cs, 1, Len(cs) - 1)) * Len(Digits) + DigitVal(cs[Len(cs)])

RECURSIVE NatChars(_)
NatChars(i) ==
  IF i < Len(Digits) THEN <<Digits[i + 1]>>
  ELSE NatChars(i \div Len(Digits)) \o <<Digits[(i % Len(Digits)) + 1]>>

\* str(i) of an int
IntChars(i) == IF i < 0 THEN <<"-">> \o NatChars(-i) ELSE NatChars(i)

Upper == <<"A", "B", "C", "D", "E", "F", "G", "H", "I", "J", "K", "L", "M", "N", "O", "P", "Q", "R", "S", "T", "U", "V", "W", "X", "Y", "Z">>
Lower == <<"a", "b", "c", "d", "e", "f", "g", "h", "i", "j", "k", "l", "m", "n", "o", "p", "q", "r", "s", "t", "u", "v", "w", "x", "y", "z">>

LowerChar(c) ==
  IF \E i \in 1..Len(Upper) : Upper[i] = c
  THEN Lower[CHOOSE i \in 1..Len(Upper) : Upper[i] = c]
  ELSE c

\* str.lower()
LowerStr(cs) == [i \in 1..Len(cs) |-> LowerChar(cs[i])]

RECURSIVE StripLeft(_)
StripLeft(cs) ==
  IF cs # <<>> /\ cs[1] = " " THEN StripLeft(Tail(cs)) ELSE cs

RECURSIVE StripRight(_)
StripRight(cs) ==
  IF cs # <<>> /\ cs[Len(cs)] = " " THEN StripRight(SubSeq(cs, 1, Len(cs) - 1)) ELSE cs

\* str.strip()
Strip(cs) == StripRight(StripLeft(cs))

-----------------------------------------------------------------------------
(* The Python builtins the converter calls *)

\* the characters of an optionally signed decimal integer literal, else <<>>
IntBody(cs) == IF cs # <<>> /\ (cs[1] = "-" \/ cs[1] = "+") THEN Tail(cs) ELSE cs

IsIntLiteral(cs) == IntBody(cs) # <<>> /\ AllDigits(IntBody(cs))

IntLiteralVal(cs) ==
  IF cs[1] = "-" THEN -DigitsVal(IntBody(cs)) ELSE DigitsVal(IntBody(cs))

\* int(x) of a float held in tenths truncates toward zero
TruncTenths(t) ==
  IF t >= 0 THEN t \div Len(Digits) ELSE -((-t) \div Len(Digits))

\* int(value)
PyInt(v) ==
  CASE v.k = "str" ->
         IF IsIntLiteral(Strip(v.s)) THEN Ok(IntV(IntLiteralVal(Strip(v.s))))
         ELSE Raise("ValueError")
    [] v.k = "int" -> Ok(v)
    [] v.k = "bool" -> Ok(IntV(v.n))
    [] v.k = "float" ->
         IF v.s # <<>> THEN Raise("OverflowError") ELSE Ok(IntV(TruncTenths(v.n)))
    [] OTHER -> Raise("TypeError")

\* the position of the decimal point in cs, 0 when there is none
DotAt(cs) ==
  IF \E i \in 1..Len(cs) : cs[i] = "." THEN CHOOSE i \in 1..Len(cs) : cs[i] = "." ELSE 0

\* a decimal literal with at most one fractional digit (the sampled strings
\* carry no more): sign, digits, and optionally a point and one digit
IsFloatLiteral(cs) ==
  LET b == IntBody(cs)
      d == DotAt(b)
  IN  IF d = 0 THEN b # <<>> /\ AllDigits(b)
      ELSE /\ d > 1
           /\ AllDigits(SubSeq(b, 1, d - 1))
           /\ Len(b) = d + 1
           /\ IsDigit(b[d + 1])

FloatLiteralVal(cs) ==
  LET b == IntBody(cs)
      d == DotAt(b)
      t == IF d = 0 THEN DigitsVal(b) * Len(Digits)
           ELSE DigitsVal(SubSeq(b, 1, d - 1)) * Len(Digits) + DigitVal(b[d + 1])
  IN  IF cs[1] = "-" THEN -t ELSE t

\* the literals of positive infinity (the sampled strings hold no negative one)
IsInfLiteral(cs) ==
  LowerStr(IF cs # <<>> /\ cs[1] = "+" THEN Tail(cs) ELSE cs)
    \in {<<"i", "n", "f">>, <<"i", "n", "f", "i", "n", "i", "t", "y">>}

\* float(value)
PyFloat(v) ==
  CASE v.k = "str" ->
         IF IsInfLiteral(Strip(v.s)) THEN Ok(FloatInf)
         ELSE IF IsFloatLiteral(Strip(v.s)) THEN Ok(FloatV(FloatLiteralVal(Strip(v.s))))
         ELSE Raise("ValueError")
    [] v.k = "int" -> Ok(FloatV(v.n * Len(Digits)))
    [] v.k = "bool" -> Ok(FloatV(v.n * Len(Digits)))
    [] v.k = "float" -> Ok(v)
    [] OTHER -> Raise("TypeError")

\* bool(value) of a value that is neither a bool nor a str
PyBool(v) ==
  CASE v.k \in {"int", "bool"} -> v.n # 0
    [] v.k = "float" -> v.n # 0 \/ v.s # <<>>
    [] v.k = "str" -> v.s # <<>>
    [] v.k = "null" -> FALSE
    [] OTHER -> TRUE

\* a number written with at least two digits
Pad2(i) == IF i < Len(Digits) THEN <<"0">> \o NatChars(i) ELSE NatChars(i)

RECURSIVE PadTo(_, _)
PadTo(cs, w) == IF Len(cs) < w THEN PadTo(<<"0">> \o cs, w) ELSE cs

DateYear(d) == d \div 10000
DateMonth(d) == (d \div 100) % 100
DateDay(d) == d % 100

\* date.isoformat()
IsoChars(d) ==
  PadTo(NatChars(DateYear(d)), 4) \o <<"-">> \o Pad2(DateMonth(d)) \o <<"-">> \o Pad2(DateDay(d))

\* repr of a finite float held in tenths
FloatChars(t) ==
  LET a == IF t < 0 THEN -t ELSE t
  IN  (IF t < 0 THEN <<"-">> ELSE <<>>)
        \o NatChars(a \div Len(Digits)) \o <<".">> \o NatChars(a % Len(Digits))

\* str(value)
PyStr(v) ==
  CASE v.k = "str" -> v
    [] v.k = "int" -> StrV(IntChars(v.n))
    [] v.k = "bool" -> StrV(IF v.n = 1 THEN <<"T", "r", "u", "e">> ELSE <<"F", "a", "l", "s", "e">>)
    [] v.k = "float" -> StrV(IF v.s # <<>> THEN v.s ELSE FloatChars(v.n))
    [] v.k = "date" -> StrV(IsoChars(v.n))
    [] v.k = "null" -> StrV(<<"N", "o", "n", "e">>)
    [] OTHER -> StrV(<<"<", "o", "b", "j", "e", "c", "t", ">">>)

IsLeap(y) == (y % 4 = 0 /\ y % 100 # 0) \/ y % 400 = 0

DaysIn(y, m) ==
  CASE m = 2 -> IF IsLeap(y) THEN 29 ELSE 28
    [] m \in {4, 6, 9, 11} -> 30
    [] OTHER -> 31

\* YYYY-MM-DD naming a day of the calendar
IsIsoDate(cs) ==
  /\ Len(cs) = 10
  /\ cs[5] = "-" /\ cs[8] = "-"
  /\ AllDigits(SubSeq(cs, 1, 4)) /\ AllDigits(SubSeq(cs, 6, 7)) /\ AllDigits(SubSeq(cs, 9, 10))
  /\ DigitsVal(SubSeq(cs, 1, 4)) >= 1
  /\ DigitsVal(SubSeq(cs, 6, 7)) \in 1..12
  /\ DigitsVal(SubSeq(cs, 9, 10)) \in 1..DaysIn(DigitsVal(SubSeq(cs, 1, 4)), DigitsVal(SubSeq(cs, 6, 7)))

IsoDateVal(cs) ==
  DigitsVal(SubSeq(cs, 1, 4)) * 10000 + DigitsVal(SubSeq(cs, 6, 7)) * 100 + DigitsVal(SubSeq(cs, 9, 10))

\* date.fromisoformat(value) of a str
FromIsoFormat(v) ==
  IF IsIsoDate(v.s) THEN Ok(DateV(IsoDateVal(v.s))) ELSE Raise("ValueError")

-----------------------------------------------------------------------------
(* Schemas: what model.model_fields holds *)

\* A type annotation as FieldInfo.annotation holds it: base is the innermost
\* type, wrap the wrappers around it from the outermost in ("Annotated",
\* "Union"), lits the values of a Literal or the options of a Select(...)
\* type, others the further members of the Union besides base and None.
Ann(wrap, base, lits, others, nullable) ==
  [wrap |-> wrap, base |-> base, lits |-> lits, others |-> others, nullable |-> nullable]

Plain(base) == Ann(<<>>, base, <<>>, <<>>, FALSE)
\* T | None
Nullable(base) == Ann(<<"Union">>, base, <<>>, <<>>, TRUE)
\* Literal[...], lits its values
LiteralOf(lits) == Ann(<<>>, "literal", lits, <<>>, FALSE)

\* faulty variant: a missing label stays None
SelectOption_label_unset(value, label) == [value |-> value, label |-> label]

\* SelectOption(value, label=None): the label defaults to the value
SelectOption(value, label) ==
  [value |-> value, label |-> IF IsNone(label) THEN value ELSE label]

\* SelectField(options).options: a bare str becomes SelectOption(opt, opt),
\* a SelectOption is kept
SelectField(options) ==
  [i \in 1..Len(options) |->
     IF "k" \in DOMAIN options[i] THEN SelectOption(options[i], options[i]) ELSE options[i]]

\* Select(options): the SelectType class, a str subclass carrying _options
Select(options) == Ann(<<>>, "select", SelectField(options), <<>>, FALSE)

\* a constraint of FieldInfo.metadata: annotated_types.MinLen, Ge, ...
Con(c, v) == [c |-> c, v |-> v]

\* FieldInfo: required is is_required(), that is, the field declares no default
FieldInfo(name, annotation, required, default, metadata) ==
  [name |-> name, annotation |-> annotation, required |-> required,
   default |-> default, metadata |-> metadata]

\* a model class: its fields in declaration order and its model_validator
Schema(id, fields, rule) == [id |-> id, fields |-> fields, rule |-> rule]

active == <<"a", "c", "t", "i", "v", "e">>
inactive == <<"i", "n", "a", "c", "t", "i", "v", "e">>
pending == <<"p", "e", "n", "d", "i", "n", "g">>

SimpleModel ==
  Schema("SimpleModel",
         <<FieldInfo("name", Plain("str"), TRUE, PydanticUndefined, {Con("min_length", 1)}),
           FieldInfo("age", Plain("int"), TRUE, PydanticUndefined, {Con("ge", 0)})>>,
         "none")

UserForm ==
  Schema("UserForm",
         <<FieldInfo("username", Plain("str"), TRUE, PydanticUndefined, {Con("min_length", 3)}),
           FieldInfo("age", Plain("int"), TRUE, PydanticUndefined, {Con("ge", 18)})>>,
         "none")

PasswordModel ==
  Schema("PasswordModel",
         <<FieldInfo("password", Plain("str"), TRUE, PydanticUndefined, {Con("min_length", 1)}),
           FieldInfo("password_confirm", Plain("str"), TRUE, PydanticUndefined, {Con("min_length", 1)})>>,
         "passwords_match")

OptionalModel ==
  Schema("OptionalModel",
         <<FieldInfo("name", Plain("str"), TRUE, PydanticUndefined, {}),
           FieldInfo("nickname", Nullable("str"), FALSE, None, {})>>,
         "none")

\* the last two fields of FullModel
StatusModel ==
  Schema("StatusModel",
         <<FieldInfo("status", LiteralOf(<<StrV(active), StrV(inactive), StrV(pending)>>), TRUE, PydanticUndefined, {}),
           FieldInfo("is_admin", Plain("bool"), FALSE, BoolV(FALSE), {})>>,
         "none")

\* the float and the date field of FullModel
ScoreModel ==
  Schema("ScoreModel",
         <<FieldInfo("score", Plain("float"), TRUE, PydanticUndefined, {Con("ge", 0), Con("le", 100)}),
           FieldInfo("birth_date", Plain("date"), TRUE, PydanticUndefined, {})>>,
         "none")

\* a required checkbox, and the optional date of ProductOrder
ConsentModel ==
  Schema("ConsentModel",
         <<FieldInfo("agree_terms", Plain("bool"), TRUE, PydanticUndefined, {}),
           FieldInfo("delivery_date", Nullable("date"), FALSE, None, {})>>,
         "none")

\* a field of two member types, int | date
UnionModel ==
  Schema("UnionModel",
         <<FieldInfo("when", Ann(<<"Union">>, "int", <<>>, <<"date">>, FALSE), TRUE, PydanticUndefined, {})>>,
         "none")

Models ==
  {SimpleModel, UserForm, PasswordModel, OptionalModel, StatusModel, ScoreModel,
   ConsentModel, UnionModel}

\* the model class of a name
SchemaOf(id) == CHOOSE m \in Models : m.id = id

\* model.model_fields: the declared names, in declaration order
FieldNames(m) == [i \in 1..Len(m.fields) |-> m.fields[i].name]

FieldNameSet(m) == {m.fields[i].name : i \in 1..Len(m.fields)}

\* model.model_fields[name]
FieldOf(m, name) == m.fields[CHOOSE i \in 1..Len(m.fields) : m.fields[i].name = name]

-----------------------------------------------------------------------------
(* parser.py: the schema introspector *)

\* get_origin(annotation)
Origin(a) ==
  IF a.wrap # <<>> THEN Head(a.wrap)
  ELSE IF a.base = "literal" THEN "Literal" ELSE "none"

\* get_args(annotation)[0] of an Annotated, and the first non-None member of a Union
Unwrap(a) == [a EXCEPT !.wrap = Tail(a.wrap)]

\* hasattr(annotation, "_select_field") or hasattr(annotation, "_options"): the
\* attributes of a Select(...) type, which an Annotated alias forwards to its origin
HasOptionsAttr(a) ==
  a.base = "select" /\ \A i \in 1..Len(a.wrap) : a.wrap[i] = "Annotated"

\* the type _detect_field_type looks at after its two unwrapping steps: the
\* first argument of an Annotated, then the first non-None member of a Union
NonNoneArg(annotation) ==
  LET a1 == IF Origin(annotation) = "Annotated" THEN Unwrap(annotation) ELSE annotation
  IN  IF Origin(a1) = "Union" THEN Unwrap(a1) ELSE a1

\* faulty variant: date is not among the recognized types
_detect_field_type_without_date(annotation) ==
  LET a2 == NonNoneArg(annotation)
  IN  IF Origin(a2) = "Literal" THEN "SELECT"
      ELSE IF HasOptionsAttr(a2) THEN "SELECT"
      ELSE IF a2.wrap # <<>> THEN "STRING"
      ELSE CASE a2.base = "bool" -> "CHECKBOX"
             [] a2.base = "int" -> "INTEGER"
             [] a2.base = "float" -> "FLOAT"
             [] a2.base = "str" -> "STRING"
             [] OTHER -> "STRING"

_detect_field_type(annotation) ==
  LET a2 == NonNoneArg(annotation)
  IN  IF Origin(a2) = "Literal" THEN "SELECT"
      ELSE IF HasOptionsAttr(a2) THEN "SELECT"
      ELSE IF a2.wrap # <<>> THEN "STRING"
      ELSE CASE a2.base = "bool" -> "CHECKBOX"
             [] a2.base = "int" -> "INTEGER"
             [] a2.base = "float" -> "FLOAT"
             [] a2.base = "date" -> "DATE"
             [] a2.base = "str" -> "STRING"
             [] OTHER -> "STRING"

_extract_options(annotation) ==
  LET a1 == IF Origin(annotation) = "Annotated" THEN Unwrap(annotation) ELSE annotation
  IN  IF HasOptionsAttr(a1) THEN a1.lits
      ELSE IF Origin(a1) = "Literal"
           THEN [i \in 1..Len(a1.lits) |-> SelectOption(PyStr(a1.lits[i]), PyStr(a1.lits[i]))]
           ELSE <<>>

_extract_constraints(field_info) == field_info.metadata

\* faulty variant: the default of the FieldInfo is copied whether or not the
\* field is required
_parse_field_default_copied(name, field_info) ==
  [name |-> name,
   field_type |-> _detect_field_type(field_info.annotation),
   required |-> field_info.required,
   default |-> field_info.default,
   options |-> _extract_options(field_info.annotation),
   constraints |-> _extract_constraints(field_info)]

\* ParsedField, as _parse_field builds it
_parse_field(name, field_info) ==
  [name |-> name,
   field_type |-> _detect_field_type(field_info.annotation),
   required |-> field_info.required,
   default |-> IF ~field_info.required THEN field_info.default ELSE None,
   options |-> _extract_options(field_info.annotation),
   constraints |-> _extract_constraints(field_info)]

\* faulty variant: each parsed field is put in front of the list
ModelParser_parse_prepended(m) ==
  [i \in 1..Len(m.fields) |->
     _parse_field(m.fields[Len(m.fields) + 1 - i].name, m.fields[Len(m.fields) + 1 - i])]

\* ModelParser.parse(model)
ModelParser_parse(m) ==
  [i \in 1..Len(m.fields) |-> _parse_field(m.fields[i].name, m.fields[i])]

-----------------------------------------------------------------------------
(* The validation engine behind model.model_validate, in its default (lax)  *)
(* mode: each declared field is validated in declaration order, the         *)
(* model_validator runs after them when every field passed.                 *)

\* one entry of ValidationError.errors(): loc, type, ctx and msg
Error(loc, type, ctx, msg) == [loc |-> loc, type |-> type, ctx |-> ctx, msg |-> msg]

\* a ctx naming one bound, and a ctx naming none
Ctx(key, v) == [key |-> key, v |-> v]
NoCtx == Ctx("", 0)

Accept(v) == [ok |-> TRUE, val |-> v, type |-> ""]
Reject(type) == [ok |-> FALSE, val |-> None, type |-> type]

BoolWords ==
  {<<"0">>, <<"o", "f", "f">>, <<"f">>, <<"f", "a", "l", "s", "e">>, <<"n">>, <<"n", "o">>,
   <<"1">>, <<"o", "n">>, <<"t">>, <<"t", "r", "u", "e">>, <<"y">>, <<"y", "e", "s">>}

TrueWords == {<<"1">>, <<"o", "n">>, <<"t">>, <<"t", "r", "u", "e">>, <<"y">>, <<"y", "e", "s">>}

\* a value against one type, before its constraints
CheckType(base, lits, v) ==
  CASE base \in {"str", "select"} ->
         IF v.k = "str" THEN Accept(v) ELSE Reject("string_type")
    [] base = "int" ->
         CASE v.k = "int" -> Accept(v)
           [] v.k = "bool" -> Accept(IntV(v.n))
           [] v.k = "str" ->
                IF IsIntLiteral(Strip(v.s)) THEN Accept(IntV(IntLiteralVal(Strip(v.s))))
                ELSE Reject("int_parsing")
           [] v.k = "float" ->
                IF v.s # <<>> THEN Reject("finite_number")
                ELSE IF v.n % Len(Digits) = 0 THEN Accept(IntV(v.n \div Len(Digits)))
                ELSE Reject("int_from_float")
           [] OTHER -> Reject("int_type")
    [] base = "float" ->
         CASE v.k = "float" -> Accept(v)
           [] v.k \in {"int", "bool"} -> Accept(FloatV(v.n * Len(Digits)))
           [] v.k = "str" ->
                IF PyFloat(v).exc = "none" THEN Accept(PyFloat(v).val)
                ELSE Reject("float_parsing")
           [] OTHER -> Reject("float_type")
    [] base = "bool" ->
         CASE v.k = "bool" -> Accept(v)
           [] v.k = "int" ->
                IF v.n \in {0, 1} THEN Accept(BoolV(v.n = 1)) ELSE Reject("bool_parsing")
           [] v.k = "float" ->
                IF v.s = <<>> /\ v.n \in {0, Len(Digits)} THEN Accept(BoolV(v.n # 0))
                ELSE Reject("bool_parsing")
           [] v.k = "str" ->
                IF LowerStr(v.s) \in BoolWords THEN Accept(BoolV(LowerStr(v.s) \in TrueWords))
                ELSE Reject("bool_parsing")
           [] OTHER -> Reject("bool_type")
    [] base = "date" ->
         CASE v.k = "date" -> Accept(v)
           [] v.k = "str" ->
                IF IsIsoDate(v.s) THEN Accept(DateV(IsoDateVal(v.s)))
                ELSE Reject("date_from_datetime_parsing")
           [] v.k \in {"int", "float"} ->
                \* a number is a timestamp, a date only at midnight
                IF v.s = <<>> /\ v.n = 0 THEN Accept(DateV(19700101))
                ELSE Reject("date_from_datetime_inexact")
           [] OTHER -> Reject("date_type")
    [] base = "literal" ->
         IF \E i \in 1..Len(lits) : lits[i] = v THEN Accept(v)
         ELSE Reject("literal_error")
    [] OTHER -> Accept(v)

\* the size a constraint compares: the length of a str, the number otherwise
\* (a float is held in tenths, so the bound is scaled to tenths too)
Below(v, bound) ==
  IF v.k = "float" THEN v.s = <<>> /\ v.n < bound * Len(Digits) ELSE v.n < bound

Above(v, bound) ==
  IF v.k = "float" THEN v.s # <<>> \/ v.n > bound * Len(Digits) ELSE v.n > bound

\* whether the validated value v breaks the constraint c
Breaks(c, v) ==
  CASE c.c = "min_length" -> v.k = "str" /\ Len(v.s) < c.v
    [] c.c = "max_length" -> v.k = "str" /\ Len(v.s) > c.v
    [] c.c = "ge" -> Below(v, c.v)
    [] c.c = "gt" -> ~Above(v, c.v)
    [] c.c = "le" -> Above(v, c.v)
    [] c.c = "lt" -> ~Below(v, c.v)
    [] OTHER -> FALSE

\* the error type of a broken constraint
BrokenType(c) ==
  CASE c.c = "min_length" -> "string_too_short"
    [] c.c = "max_length" -> "string_too_long"
    [] c.c = "ge" -> "greater_than_equal"
    [] c.c = "gt" -> "greater_than"
    [] c.c = "le" -> "less_than_equal"
    [] c.c = "lt" -> "less_than"
    [] OTHER -> "value_error"

\* the order in which the engine checks the constraints of one field
ConstraintOrder == <<"min_length", "max_length", "le", "lt", "ge", "gt">>

\* the kinds of constraint of a field that v breaks, in the order they are checked
BrokenKinds(metadata, v) ==
  SelectSeq(ConstraintOrder, LAMBDA kind : \E c \in metadata : c.c = kind /\ Breaks(c, v))

\* the first constraint of a field that v breaks
FirstBroken(metadata, v) ==
  CHOOSE c \in metadata : c.c = BrokenKinds(metadata, v)[1] /\ Breaks(c, v)

\* the member types of an annotation, in declaration order, without None
Members(a) == <<a.base>> \o a.others

\* the errors of one present value of one field: none when it is accepted, one
\* for a single type, one per member for a union that no member accepts
FieldErrors(fi, v) ==
  LET a == fi.annotation
      ms == Members(a)
  IN  IF a.nullable /\ IsNone(v) THEN <<>>
      ELSE IF Len(ms) = 1
      THEN Bind(CheckType(a.base, a.lits, v), LAMBDA r :
             IF ~r.ok THEN <<Error(<<fi.name>>, r.type, NoCtx, r.type)>>
             ELSE IF BrokenKinds(fi.metadata, r.val) = <<>> THEN <<>>
             ELSE Bind(FirstBroken(fi.metadata, r.val), LAMBDA c :
                    <<Error(<<fi.name>>, BrokenType(c), Ctx(c.c, c.v), BrokenType(c))>>))
      ELSE Bind([i \in 1..Len(ms) |-> CheckType(ms[i], a.lits, v)] \o <<>>, LAMBDA res :
             IF \E i \in 1..Len(ms) : res[i].ok THEN <<>>
             ELSE [i \in 1..Len(ms) |->
                     Error(<<fi.name, ms[i]>>, res[i].type, NoCtx, res[i].type)])

\* the value the instance holds for a field whose value was accepted
Validated(fi, v) ==
  LET a == fi.annotation
      ms == Members(a)
      oks == {i \in 1..Len(ms) : CheckType(ms[i], a.lits, v).ok}
  IN  IF a.nullable /\ IsNone(v) THEN None
      ELSE CheckType(ms[CHOOSE i \in oks : \A j \in oks : i <= j], a.lits, v).val

RECURSIVE Concat(_)
Concat(ss) == IF ss = <<>> THEN <<>> ELSE Head(ss) \o Concat(Tail(ss))

\* the errors of the fields: a missing required field, or those of its value
AllFieldErrors(m, input) ==
  Concat([i \in 1..Len(m.fields) |->
            IF m.fields[i].name \in DOMAIN input
            THEN FieldErrors(m.fields[i], input[m.fields[i].name])
            ELSE IF m.fields[i].required
                 THEN <<Error(<<m.fields[i].name>>, "missing", NoCtx, "missing")>>
                 ELSE <<>>])

\* the instance built from an input whose fields all passed
Instance(m, input) ==
  [f \in FieldNameSet(m) |->
     IF f \in DOMAIN input THEN Validated(FieldOf(m, f), input[f]) ELSE FieldOf(m, f).default]

\* the model_validator(mode="after") of the model: a ValueError it raises is
\* reported with an empty loc
RuleErrors(m, inst) ==
  IF m.rule = "passwords_match" /\ inst["password"] # inst["password_confirm"]
  THEN <<Error(<<>>, "value_error", NoCtx, "passwords_match")>>
  ELSE <<>>

\* model.model_validate(input): the errors of the ValidationError it raises,
\* <<>> when it returns the instance
model_validate(m, input) ==
  Bind(AllFieldErrors(m, input), LAMBDA fe :
    IF fe # <<>> THEN fe ELSE RuleErrors(m, Instance(m, input)))

-----------------------------------------------------------------------------
(* validators.py: the per-field validator *)

\* a user-facing message: a fixed text, the field name or the bound it carries
Message(text, name, bound) == [text |-> text, name |-> name, bound |-> bound]

\* error_message = None
NoMessage == Message("", "", <<>>)
\* "このフィールドは必須です"
RequiredMessage == Message("required", "", <<>>)
\* faulty variant: an unknown field gets the message of a required one
UnknownFieldMessage_generic(field_name) == Message("required", "", <<>>)

\* f"不明なフィールド: {field_name}"
UnknownFieldMessage(field_name) == Message("unknown_field", field_name, <<>>)

\* error.get("ctx", {}).get(key, "") as the f-string prints it
CtxBound(error, key) == IF error.ctx.key = key THEN <<error.ctx.v>> ELSE <<>>

HTMXValidator_translate_error(error) ==
  CASE error.type = "string_too_short" -> Message("too_short", "", <<>>)
    [] error.type = "string_too_long" -> Message("too_long", "", <<>>)
    [] error.type = "value_error" -> Message("invalid_value", "", <<>>)
    [] error.type = "type_error" -> Message("wrong_type", "", <<>>)
    [] error.type = "missing" -> RequiredMessage
    [] error.type = "int_parsing" -> Message("enter_integer", "", <<>>)
    [] error.type = "float_parsing" -> Message("enter_number", "", <<>>)
    [] error.type = "bool_parsing" -> Message("enter_boolean", "", <<>>)
    [] error.type = "date_parsing" -> Message("enter_date", "", <<>>)
    [] error.type = "string_pattern_mismatch" -> Message("pattern_mismatch", "", <<>>)
    [] error.type = "greater_than_equal" -> Message("at_least", "", CtxBound(error, "ge"))
    [] error.type = "less_than_equal" -> Message("at_most", "", CtxBound(error, "le"))
    [] error.type = "greater_than" -> Message("greater_than", "", CtxBound(error, "gt"))
    [] error.type = "less_than" -> Message("less_than", "", CtxBound(error, "lt"))
    [] OTHER -> Message(error.msg, "", <<>>)

\* ValidationResult(is_valid, error_message), with the inputs the engine was
\* given while it was computed
ValidationResult(is_valid, error_message, calls) ==
  [is_valid |-> is_valid, error_message |-> error_message, calls |-> calls]

\* the ValidationResult alone
Outcome(r) == [is_valid |-> r.is_valid, error_message |-> r.error_message]

\* date.today()
Today == DateV(20261103)

dummy == <<"d", "u", "m", "m", "y">>

_get_dummy_value(field_info) ==
  LET a == IF Origin(field_info.annotation) = "Union"
           THEN Unwrap(field_info.annotation) ELSE field_info.annotation
  IN  IF Origin(a) = "Literal" /\ a.lits # <<>> THEN a.lits[1]
      ELSE IF a.wrap # <<>> THEN StrV(dummy)
      ELSE CASE a.base = "str" -> StrV(dummy)
             [] a.base = "int" -> IntV(0)
             [] a.base = "float" -> FloatV(0)
             [] a.base = "bool" -> BoolV(FALSE)
             [] a.base = "date" -> Today
             [] OTHER -> StrV(dummy)

\* name in data and data[name] not in (None, "")
HasValue(data, name) == name \in DOMAIN data /\ ~IsEmpty(data[name])

\* validation_data: the submitted non-empty values, a dummy value for every
\* other required field
ValidationData(m, data) ==
  [name \in {f \in FieldNameSet(m) : HasValue(data, f) \/ FieldOf(m, f).required} |->
     IF HasValue(data, name) THEN data[name] ELSE _get_dummy_value(FieldOf(m, name))]

\* faulty variant: every located error counts, whatever field it names
OwnErrors_any_located(errors, field_name) ==
  SelectSeq(errors, LAMBDA e : e.loc # <<>>)

\* faulty variant: an error with an empty loc counts as the field's own
OwnErrors_with_model_errors(errors, field_name) ==
  SelectSeq(errors, LAMBDA e : e.loc = <<>> \/ e.loc[1] = field_name)

\* the errors whose loc is not empty and starts with field_name, in order
OwnErrors(errors, field_name) ==
  SelectSeq(errors, LAMBDA e : e.loc # <<>> /\ e.loc[1] = field_name)

\* faulty variant: the loop does not return on the first match and keeps the last
ReportedError_last(own) == own[Len(own)]

\* the error the loop over e.errors() returns on: the first of the field's own
ReportedError(own) == own[1]

validate_field(m, field_name, data) ==
  IF field_name \notin FieldNameSet(m)
  THEN ValidationResult(FALSE, UnknownFieldMessage(field_name), <<>>)
  ELSE LET field_info == FieldOf(m, field_name)
           value == IF field_name \in DOMAIN data THEN data[field_name] ELSE None
       IN  IF field_info.required /\ IsEmpty(value)
           THEN ValidationResult(FALSE, RequiredMessage, <<>>)
           ELSE IF ~field_info.required /\ IsEmpty(value)
           THEN ValidationResult(TRUE, NoMessage, <<>>)
           ELSE Bind(ValidationData(m, data), LAMBDA validation_data :
                  Bind(OwnErrors(model_validate(m, validation_data), field_name), LAMBDA own :
                    IF own # <<>>
                    THEN ValidationResult(FALSE, HTMXValidator_translate_error(ReportedError(own)),
                                          <<validation_data>>)
                    ELSE ValidationResult(TRUE, NoMessage, <<validation_data>>)))

\* faulty variant: only the required fields are validated
validate_all_required_only(m, data) ==
  Bind(SelectSeq(m.fields, LAMBDA fi : fi.required), LAMBDA req :
    Bind([i \in 1..Len(req) |-> validate_field(m, req[i].name, data)] \o <<>>, LAMBDA each :
      [results |-> [i \in 1..Len(each) |-> <<req[i].name, Outcome(each[i])>>],
       calls |-> Concat([i \in 1..Len(each) |-> each[i].calls])]))

\* results: one (field_name, ValidationResult) per key of the dict, in
\* insertion order; calls: the inputs the engine was given
validate_all(m, data) ==
  Bind([i \in 1..Len(m.fields) |-> validate_field(m, FieldNames(m)[i], data)] \o <<>>,
       LAMBDA each :
         [results |-> [i \in 1..Len(each) |-> <<FieldNames(m)[i], Outcome(each[i])>>],
          calls |-> Concat([i \in 1..Len(each) |-> each[i].calls])])

\* faulty variant: the engine is asked whatever the outcomes are
validate_and_parse_unconditional(m, data) ==
  Bind(validate_all(m, data), LAMBDA all :
    [model |-> IF model_validate(m, data) = <<>> THEN <<Instance(m, data)>> ELSE <<>>,
     results |-> all.results, calls |-> all.calls, full |-> <<data>>])

\* model: <<instance>>, or <<>> for None; full: the inputs model_validate was
\* given by validate_and_parse itself
validate_and_parse(m, data) ==
  Bind(validate_all(m, data), LAMBDA all :
    IF \A i \in 1..Len(all.results) : all.results[i][2].is_valid
    THEN [model |-> IF model_validate(m, data) = <<>> THEN <<Instance(m, data)>> ELSE <<>>,
          results |-> all.results, calls |-> all.calls, full |-> <<data>>]
    ELSE [model |-> <<>>, results |-> all.results, calls |-> all.calls, full |-> <<>>])

-----------------------------------------------------------------------------
(* form_data.py: the form data converter *)

CheckedWords ==
  {<<"o", "n">>, <<"t", "r", "u", "e">>, <<"1">>, <<"y", "e", "s">>,
   <<"c", "h", "e", "c", "k", "e", "d">>}

\* faulty variant: the string of a date field is returned without being parsed
ConvertByKind_date_unparsed(value, field_type) ==
  CASE field_type = "INTEGER" -> PyInt(value)
    [] field_type = "FLOAT" -> PyFloat(value)
    [] field_type \in {"CHECKBOX", "BOOLEAN"} ->
         IF value.k = "bool" THEN Ok(value)
         ELSE IF value.k = "str" THEN Ok(BoolV(LowerStr(value.s) \in CheckedWords))
         ELSE Ok(BoolV(PyBool(value)))
    [] field_type = "DATE" -> Ok(value)
    [] field_type = "SELECT" -> Ok(PyStr(value))
    [] field_type = "STRING" -> Ok(PyStr(value))
    [] OTHER -> Ok(value)

\* faulty variant: a checkbox string is compared without value.lower()
ConvertByKind_case_sensitive(value, field_type) ==
  CASE field_type = "INTEGER" -> PyInt(value)
    [] field_type = "FLOAT" -> PyFloat(value)
    [] field_type \in {"CHECKBOX", "BOOLEAN"} ->
         IF value.k = "bool" THEN Ok(value)
         ELSE IF value.k = "str" THEN Ok(BoolV(value.s \in CheckedWords))
         ELSE Ok(BoolV(PyBool(value)))
    [] field_type = "DATE" ->
         IF value.k = "date" THEN Ok(value)
         ELSE IF value.k = "str" THEN FromIsoFormat(value)
         ELSE Ok(value)
    [] field_type = "SELECT" -> Ok(PyStr(value))
    [] field_type = "STRING" -> Ok(PyStr(value))
    [] OTHER -> Ok(value)

\* the conversion of a non-empty value by the kind of its field
ConvertByKind(value, field_type) ==
  CASE field_type = "INTEGER" -> PyInt(value)
    [] field_type = "FLOAT" -> PyFloat(value)
    [] field_type \in {"CHECKBOX", "BOOLEAN"} ->
         IF value.k = "bool" THEN Ok(value)
         ELSE IF value.k = "str" THEN Ok(BoolV(LowerStr(value.s) \in CheckedWords))
         ELSE Ok(BoolV(PyBool(value)))
    [] field_type = "DATE" ->
         IF value.k = "date" THEN Ok(value)
         ELSE IF value.k = "str" THEN FromIsoFormat(value)
         ELSE Ok(value)
    [] field_type = "SELECT" -> Ok(PyStr(value))
    [] field_type = "STRING" -> Ok(PyStr(value))
    [] OTHER -> Ok(value)

\* except (ValueError, TypeError): return value
Caught == {"ValueError", "TypeError"}

\* faulty variant: the kind-specific conversion comes first, the empty check after
_convert_value_kind_first(value, parsed_field) ==
  Bind(ConvertByKind(value, parsed_field.field_type), LAMBDA r :
    IF r.exc \in Caught
    THEN IF (IsEmptyStr(value) \/ IsNone(value)) /\ ~parsed_field.required
         THEN Ok(None) ELSE Ok(value)
    ELSE r)

_convert_value(value, parsed_field) ==
  IF IsEmptyStr(value) \/ IsNone(value)
  THEN IF ~parsed_field.required THEN Ok(None) ELSE Ok(value)
  ELSE Bind(ConvertByKind(value, parsed_field.field_type), LAMBDA r :
         IF r.exc \in Caught THEN Ok(value) ELSE r)

\* faulty variant: an absent checkbox is filled in only when it is not required
ConvertedKeys_optional_checkbox(fields, form_data) ==
  {fields[i].name : i \in {j \in 1..Len(fields) :
      \/ fields[j].name \in DOMAIN form_data
      \/ fields[j].field_type = "CHECKBOX" /\ ~fields[j].required}}

\* the fields the loop of _convert_form_data writes to converted
ConvertedKeys(fields, form_data) ==
  {fields[i].name : i \in {j \in 1..Len(fields) :
      fields[j].name \in DOMAIN form_data \/ fields[j].field_type = "CHECKBOX"}}

\* faulty variant: converted starts as a copy of form_data, so a key that is
\* no field is kept as submitted
_convert_form_data_copy(fields, form_data) ==
  Bind([i \in 1..Len(fields) |->
          IF fields[i].name \in DOMAIN form_data
          THEN _convert_value(form_data[fields[i].name], fields[i])
          ELSE Ok(BoolV(FALSE))] \o <<>>,
       LAMBDA each :
         IF \E i \in 1..Len(each) : each[i].exc # "none"
         THEN [exc |-> each[CHOOSE i \in 1..Len(each) :
                             /\ each[i].exc # "none"
                             /\ \A j \in 1..(i - 1) : each[j].exc = "none"].exc,
               converted |-> <<>>]
         ELSE [exc |-> "none",
               converted |-> [name \in ConvertedKeys(fields, form_data) \cup DOMAIN form_data |->
                                IF \E i \in 1..Len(fields) : fields[i].name = name
                                THEN each[CHOOSE i \in 1..Len(fields) : fields[i].name = name].val
                                ELSE form_data[name]]])

\* exc: the exception _convert_form_data lets through ("none" when it
\* returns); converted: the mapping it returns
_convert_form_data(fields, form_data) ==
  Bind([i \in 1..Len(fields) |->
          IF fields[i].name \in DOMAIN form_data
          THEN _convert_value(form_data[fields[i].name], fields[i])
          ELSE Ok(BoolV(FALSE))] \o <<>>,
       LAMBDA each :
         IF \E i \in 1..Len(each) : each[i].exc # "none"
         THEN [exc |-> each[CHOOSE i \in 1..Len(each) :
                             /\ each[i].exc # "none"
                             /\ \A j \in 1..(i - 1) : each[j].exc = "none"].exc,
               converted |-> <<>>]
         ELSE [exc |-> "none",
               converted |-> [name \in ConvertedKeys(fields, form_data) |->
                                each[CHOOSE i \in 1..Len(fields) :
                                       fields[i].name = name].val]])

\* FormDataParser._translate_error: the table of the converter's own copy
FormDataParser_translate_error(error) ==
  CASE error.type = "string_too_short" -> Message("too_short", "", <<>>)
    [] error.type = "string_too_long" -> Message("too_long", "", <<>>)
    [] error.type = "value_error" -> Message("invalid_value", "", <<>>)
    [] error.type = "type_error" -> Message("wrong_type", "", <<>>)
    [] error.type = "missing" -> RequiredMessage
    [] error.type = "int_parsing" -> Message("enter_integer", "", <<>>)
    [] error.type = "float_parsing" -> Message("enter_number", "", <<>>)
    [] error.type = "bool_parsing" -> Message("enter_boolean", "", <<>>)
    [] error.type = "date_parsing" -> Message("enter_date", "", <<>>)
    [] error.type = "date_from_datetime_parsing" -> Message("enter_date", "", <<>>)
    [] error.type = "string_pattern_mismatch" -> Message("pattern_mismatch", "", <<>>)
    [] error.type = "greater_than_equal" -> Message("at_least", "", CtxBound(error, "ge"))
    [] error.type = "less_than_equal" -> Message("at_most", "", CtxBound(error, "le"))
    [] error.type = "greater_than" -> Message("greater_than", "", CtxBound(error, "gt"))
    [] error.type = "less_than" -> Message("less_than", "", CtxBound(error, "lt"))
    [] OTHER -> Message(error.msg, "", <<>>)

\* parse(form_data): exc is the exception it raises ("none" when it returns),
\* errors the errors of a ValidationError, model <<instance>> when it returns,
\* full the inputs model_validate was given
parse(fields, m, form_data) ==
  Bind(_convert_form_data(fields, form_data), LAMBDA c :
    IF c.exc # "none"
    THEN [exc |-> c.exc, errors |-> <<>>, model |-> <<>>, full |-> <<>>]
    ELSE Bind(model_validate(m, c.converted), LAMBDA errors :
           IF errors # <<>>
           THEN [exc |-> "ValidationError", errors |-> errors, model |-> <<>>,
                 full |-> <<c.converted>>]
           ELSE [exc |-> "none", errors |-> <<>>, model |-> <<Instance(m, c.converted)>>,
                 full |-> <<c.converted>>]))

\* the dict the loop over e.errors() leaves: an error with an empty loc is
\* skipped, errors[str(loc[0])] is assigned again by every later error of the
\* same field
ErrorDict(errors) ==
  [field_name \in {errors[i].loc[1] : i \in {j \in 1..Len(errors) : errors[j].loc # <<>>}} |->
     FormDataParser_translate_error(
       errors[CHOOSE i \in 1..Len(errors) :
                /\ errors[i].loc # <<>> /\ errors[i].loc[1] = field_name
                /\ \A j \in (i + 1)..Len(errors) :
                     ~(errors[j].loc # <<>> /\ errors[j].loc[1] = field_name)])]

\* parse_safe(form_data): the pair (model, errors), model <<>> for None; only
\* a ValidationError is caught
parse_safe(fields, m, form_data) ==
  Bind(parse(fields, m, form_data), LAMBDA p :
    CASE p.exc = "none" ->
           [exc |-> "none", model |-> p.model, errors |-> <<>>, raised |-> <<>>, full |-> p.full]
      [] p.exc = "ValidationError" ->
           [exc |-> "none", model |-> <<>>, errors |-> ErrorDict(p.errors),
            raised |-> p.errors, full |-> p.full]
      [] OTHER ->
           [exc |-> p.exc, model |-> <<>>, errors |-> <<>>, raised |-> <<>>, full |-> p.full])

-----------------------------------------------------------------------------
(* The callers: a form is filled in key by key and handed to the operations *)

\* how many of the sampled values a form may hold
MaxSamples == 20

\* the values a submitted mapping may hold for a key
Samples ==
  <<None,
    StrV(<<>>),
    StrV(<<"J", "o", "h", "n">>),
    StrV(<<"a", "b">>),
    StrV(<<"2", "5">>),
    StrV(<<"-", "5">>),
    StrV(<<"o", "n">>),
    StrV(<<"2", "0", "0", "0", "-", "0", "1", "-", "0", "1">>),
    StrV(active),
    StrV(<<"8", "5", ".", "5">>),
    IntV(25),
    IntV(-5),
    BoolV(TRUE),
    BoolV(FALSE),
    FloatV(855),
    FloatInf,
    DateV(20000101),
    Obj,
    StrV(<<" ", "1", "8", " ">>),
    StrV(<<"O", "N">>),
    StrV(<<"i", "n", "f">>)>>

RawValues ==
  {Samples[i] : i \in 1..(IF MaxSamples < Len(Samples) THEN MaxSamples ELSE Len(Samples))}

ModelIds == {m.id : m \in Models}

\* a field name no model declares
NoSuchField == "no_such_field"

\* the key the hx-vals of a generated input adds to the request, and its value
HookKey == "_field"

HookValue == StrV(<<"a", "g", "e">>)

\* the instance under use
M == SchemaOf(cls)

NoResult == [none |-> TRUE]

\* FormDataParser(model), FormGenerator(model), HTMXValidator(model): the
\* constructors keep the class and, the first two, ModelParser.parse(model)
Init ==
  /\ cls \in ModelIds
  /\ self_fields = ModelParser_parse(SchemaOf(cls)) \o <<>>
  /\ form = <<>>
  /\ op = "new"
  /\ arg = ""
  /\ result = NoResult

\* the caller sets one key of the mapping it will submit
SetValue(name, v) ==
  /\ form' = [k \in DOMAIN form \cup {name} |-> IF k = name THEN v ELSE form[k]]
  /\ op' = "edit"
  /\ arg' = name
  /\ result' = NoResult
  /\ UNCHANGED <<cls, self_fields>>

\* the caller leaves one key out
RemoveValue(name) ==
  /\ name \in DOMAIN form
  /\ form' = [k \in DOMAIN form \ {name} |-> form[k]]
  /\ op' = "edit"
  /\ arg' = name
  /\ result' = NoResult
  /\ UNCHANGED <<cls, self_fields>>

ValidateField(field_name) ==
  /\ op' = "validate_field"
  /\ arg' = field_name
  /\ result' = validate_field(M, field_name, form)
  /\ UNCHANGED <<cls, self_fields, form>>

ValidateAll ==
  /\ op' = "validate_all"
  /\ arg' = ""
  /\ result' = validate_all(M, form)
  /\ UNCHANGED <<cls, self_fields, form>>

ValidateAndParse ==
  /\ op' = "validate_and_parse"
  /\ arg' = ""
  /\ result' = validate_and_parse(M, form)
  /\ UNCHANGED <<cls, self_fields, form>>

\* faulty variant: the converted values are written into the caller's mapping
ConvertFormData_in_place ==
  /\ op' = "_convert_form_data"
  /\ arg' = ""
  /\ result' = _convert_form_data(self_fields, form)
  /\ form' = IF result'.exc = "none"
             THEN [k \in DOMAIN form \cup DOMAIN result'.converted |->
                     IF k \in DOMAIN result'.converted THEN result'.converted[k] ELSE form[k]]
             ELSE form
  /\ UNCHANGED <<cls, self_fields>>

ConvertFormData ==
  /\ op' = "_convert_form_data"
  /\ arg' = ""
  /\ result' = _convert_form_data(self_fields, form)
  /\ UNCHANGED <<cls, self_fields, form>>

\* self._convert_value(form_data[field_name], self.fields[field_name])
ConvertValue(field_name) ==
  /\ field_name \in DOMAIN form
  /\ op' = "_convert_value"
  /\ arg' = field_name
  /\ result' = _convert_value(form[field_name],
                              self_fields[CHOOSE i \in 1..Len(self_fields) :
                                            self_fields[i].name = field_name])
  /\ UNCHANGED <<cls, self_fields, form>>

ParseSafe ==
  /\ op' = "parse_safe"
  /\ arg' = ""
  /\ result' = parse_safe(self_fields, M, form)
  /\ UNCHANGED <<cls, self_fields, form>>

Next ==
  \/ \E name \in FieldNameSet(M), v \in RawValues : SetValue(name, v)
  \/ SetValue(HookKey, HookValue)
  \/ \E name \in FieldNameSet(M) \cup {HookKey} : RemoveValue(name)
  \/ \E field_name \in FieldNameSet(M) \cup {NoSuchField} : ValidateField(field_name)
  \/ ValidateAll
  \/ ValidateAndParse
  \/ ConvertFormData
  \/ \E field_name \in FieldNameSet(M) : ConvertValue(field_name)
  \/ ParseSafe

Spec == Init /\ [][Next]_vars

-----------------------------------------------------------------------------
(* The callers of the introspector: a model class is declared field by     *)
(* field and handed to ModelParser.parse                                    *)

\* the names the attributes of the class body are given
AttributeNames == {"first", "second"}

red == <<"r", "e", "d">>

\* the types a field is declared with: the primitives, a type the resolver
\* does not know (Decimal), two Literals and a Select(...) type
BaseTypes ==
  {Plain("bool"), Plain("int"), Plain("float"), Plain("date"), Plain("str"), Plain("decimal"),
   LiteralOf(<<StrV(active), StrV(inactive), StrV(pending)>>),
   LiteralOf(<<IntV(1), IntV(2)>>),
   Select(<<StrV(red),
            SelectOption(StrV(<<"S">>), None),
            SelectOption(StrV(<<"M">>), StrV(<<"M", "-", "s", "i", "z", "e">>))>>)}

\* the wrappers around a type, from the outermost in: none, Annotated[T, ...],
\* T | None, Annotated[T | None, ...], Annotated[T, ...] | None and
\* Annotated[Annotated[T, ...] | None, ...]
Wrappings ==
  {<<>>, <<"Annotated">>, <<"Union">>, <<"Annotated", "Union">>, <<"Union", "Annotated">>,
   <<"Annotated", "Union", "Annotated">>}

Wrapped(t, w) ==
  [t EXCEPT !.wrap = w, !.nullable = \E i \in 1..Len(w) : w[i] = "Union"]

TypeExprs == {Wrapped(t, w) : t \in BaseTypes, w \in Wrappings}

\* FieldInfo.annotation: pydantic moves the metadata of an outermost Annotated
\* to FieldInfo.metadata, so the annotation it keeps is never an Annotated
FieldAnnotations == {a \in TypeExprs : Origin(a) # "Annotated"}

\* the default and the Field(...) constraints a field is declared with; only
\* an ordered type takes a bound
Declarations(annotation) ==
  {[default |-> PydanticUndefined, metadata |-> {}], [default |-> None, metadata |-> {}]}
    \cup IF annotation.base \in {"int", "float", "date", "decimal"}
         THEN {[default |-> PydanticUndefined, metadata |-> {Con("ge", 0)}],
               [default |-> IntV(0), metadata |-> {Con("ge", 0), Con("lt", 9)}]}
         ELSE {}

\* the class statement has no field yet
ParserInit ==
  /\ cls = Schema("Declared", <<>>, "none")
  /\ self_fields = <<>>
  /\ form = <<>>
  /\ op = "new"
  /\ arg = ""
  /\ result = NoResult

\* one more annotated attribute of the class body: a new name is added after
\* the others, a name declared before keeps its place and takes the new
\* declaration; FieldInfo.is_required() holds when no default is given
DeclareField(name, annotation, decl) ==
  /\ cls' = [cls EXCEPT !.fields =
               LET field_info == FieldInfo(name, annotation, decl.default = PydanticUndefined,
                                           decl.default, decl.metadata)
               IN  IF name \in FieldNameSet(cls)
                   THEN [i \in 1..Len(@) |-> IF @[i].name = name THEN field_info ELSE @[i]]
                   ELSE Append(@, field_info)]
  /\ op' = "declare"
  /\ arg' = name
  /\ result' = NoResult
  /\ UNCHANGED <<self_fields, form>>

\* ModelParser.parse(cls)
Parse ==
  /\ op' = "parse"
  /\ arg' = ""
  /\ result' = ModelParser_parse(cls)
  /\ UNCHANGED <<cls, self_fields, form>>

ParserNext ==
  \/ \E name \in AttributeNames, annotation \in FieldAnnotations :
       \E decl \in Declarations(annotation) : DeclareField(name, annotation, decl)
  \/ Parse

ParserSpec == ParserInit /\ [][ParserNext]_vars

-----------------------------------------------------------------------------
(* The resolver on its own: a type expression is resolved, and the type it  *)
(* was reduced to is resolved again                                         *)

\* what the resolver gives for a type expression: the kind and the options
Resolved(annotation) ==
  [field_type |-> _detect_field_type(annotation), options |-> _extract_options(annotation)]

ResolverInit ==
  /\ cls = "ModelParser"
  /\ self_fields = <<>>
  /\ form = <<>>
  /\ op = "new"
  /\ arg = ""
  /\ result = NoResult

ResolveType(annotation) ==
  /\ op' = "resolve"
  /\ arg' = annotation
  /\ result' = Resolved(annotation)
  /\ form' = <<>>
  /\ UNCHANGED <<cls, self_fields>>

\* the type the last resolution was reduced to is resolved in its turn; form
\* keeps the first resolution
ResolveAgain ==
  /\ op = "resolve"
  /\ op' = "resolve_again"
  /\ arg' = NonNoneArg(arg)
  /\ result' = Resolved(NonNoneArg(arg))
  /\ form' = <<[annotation |-> arg, resolved |-> result]>>
  /\ UNCHANGED <<cls, self_fields>>

ResolverNext ==
  \/ \E annotation \in TypeExprs : ResolveType(annotation)
  \/ ResolveAgain

ResolverSpec == ResolverInit /\ [][ResolverNext]_vars

-----------------------------------------------------------------------------
(* templates.py, form_generator.py, validators.py: the generated HTML.      *)
(* An output is the sequence of the values put into the placeholders of the *)
(* templates, in the order they are formatted: the placeholder, the text    *)
(* handed in and the text written. The fixed text of the templates, and the *)
(* numbers of minlength, maxlength, min and max, take no text.              *)

Fill(placeholder, text, written) ==
  [placeholder |-> placeholder, text |-> text, written |-> written]

\* str.replace(old, new) for a one-character old
Replace(chars, old, new) ==
  Concat([i \in 1..Len(chars) |-> IF chars[i] = old THEN new ELSE <<chars[i]>>])

\* TemplateRenderer._escape_html, ValidationResult._escape_html
_escape_html(text) ==
  StrV(Replace(Replace(Replace(Replace(Replace(text.s,
         "&", <<"&", "a", "m", "p", ";">>),
         "<", <<"&", "l", "t", ";">>),
         ">", <<"&", "g", "t", ";">>),
         "\"", <<"&", "q", "u", "o", "t", ";">>),
         "'", <<"&", "#", "x", "2", "7", ";">>))

\* bool(text) of a str | None
Truthy(text) == ~IsNone(text) /\ text.s # <<>>

render_field(field, validate_endpoint) ==
  LET _build_attrs ==
        (IF ~IsNone(field.default) /\ field.field_type \notin {"SELECT", "CHECKBOX"}
         THEN <<Fill("value", PyStr(field.default), _escape_html(PyStr(field.default)))>>
         ELSE <<>>)
        \o (IF ~IsNone(field.pattern)
            THEN <<Fill("pattern", field.pattern, _escape_html(field.pattern))>> ELSE <<>>)
        \o (IF ~IsNone(field.placeholder)
            THEN <<Fill("placeholder", field.placeholder, _escape_html(field.placeholder))>>
            ELSE <<>>)
      _render_select ==
        Concat([i \in 1..Len(field.options) |->
                  <<Fill("option_value", field.options[i].value,
                         _escape_html(field.options[i].value)),
                    Fill("option_label", field.options[i].label,
                         _escape_html(field.options[i].label))>>])
      _render_input ==
        <<Fill("name", field.name, field.name)>>
        \o _build_attrs
        \o <<Fill("validate_url", validate_endpoint, validate_endpoint)>>
        \o (IF field.field_type = "SELECT" THEN _render_select ELSE <<>>)
      description ==
        IF Truthy(field.description)
        THEN <<Fill("description", field.description, _escape_html(field.description))>>
        ELSE <<>>
  IN  <<Fill("name", field.name, field.name),
        Fill("label", field.title, _escape_html(field.title))>>
      \o _render_input \o description

render_form(fields, validate_endpoint, form_id, action, target, swap, submit_text) ==
  <<Fill("form_id", form_id, form_id), Fill("action", action, action),
    Fill("target", target, target), Fill("swap", swap, swap)>>
  \o Concat([i \in 1..Len(fields) |-> render_field(fields[i], validate_endpoint)])
  \o <<Fill("submit_text", submit_text, submit_text)>>

\* form_id defaults to f"{self.model.__name__.lower()}-form"
generate_form(self, fields, form_id, action, target, swap, submit_text) ==
  render_form(fields, self.validate_endpoint,
              IF IsNone(form_id)
              THEN StrV(LowerStr(self.model_name) \o <<"-", "f", "o", "r", "m">>) ELSE form_id,
              action, target, swap, submit_text)

\* the title goes to <title> and to <h1>
generate_full_html(self, fields, title, form_id, action, target, submit_text) ==
  <<Fill("title", title, title), Fill("title", title, title)>>
  \o generate_form(self, fields, form_id, action, target,
                   StrV(<<"i", "n", "n", "e", "r", "H", "T", "M", "L">>), submit_text)

\* ValidationResult.to_html
to_html(r) ==
  IF r.is_valid \/ ~Truthy(r.error_message) THEN <<>>
  ELSE <<Fill("error_message", r.error_message, _escape_html(r.error_message))>>

\* results: the (field_name, ValidationResult) items of the dict
generate_error_response(results) ==
  Concat([i \in 1..Len(results) |->
            IF ~results[i][2].is_valid
            THEN <<Fill("field_name", results[i][1], results[i][1]),
                   Fill("error_message", results[i][2].error_message,
                        PyStr(results[i][2].error_message))>>
            ELSE <<>>])

\* the texts a caller hands in: plain, markup, and the characters of an
\* attribute value
Texts ==
  {StrV(<<"a">>), StrV(<<"<", "b", ">">>), StrV(<<"&", "\"", "'">>)}

\* the descriptors rendered: a text input and a select, with their texts
RenderedFields ==
  {[name |-> StrV(<<"b", "i", "o">>), field_type |-> "STRING", required |-> FALSE,
    title |-> t, description |-> u, default |-> u, pattern |-> t, placeholder |-> u,
    options |-> <<>>] : t \in Texts, u \in Texts}
  \cup
  {[name |-> StrV(<<"s", "i", "z", "e">>), field_type |-> "SELECT", required |-> TRUE,
    title |-> t, description |-> None, default |-> None, pattern |-> None,
    placeholder |-> None,
    options |-> <<SelectOption(t, None), SelectOption(t, u)>>] : t \in Texts, u \in Texts}

\* FormGenerator(model, validate_endpoint)
RenderInit ==
  /\ cls \in {[model_name |-> <<"U", "s", "e", "r">>, validate_endpoint |-> e] : e \in Texts}
  /\ self_fields \in {<<f>> : f \in RenderedFields}
  /\ form = <<>>
  /\ op = "new"
  /\ arg = ""
  /\ result = NoResult

\* generate_field(field_name): the first field of that name is rendered, a
\* ValueError is raised when there is none
GenerateField(field_name) ==
  /\ arg' = field_name
  /\ IF \E i \in 1..Len(self_fields) : self_fields[i].name = field_name
     THEN /\ op' = "render_field"
          /\ result' = render_field(
                         self_fields[CHOOSE i \in 1..Len(self_fields) :
                                       /\ self_fields[i].name = field_name
                                       /\ \A j \in 1..(i - 1) : self_fields[j].name # field_name],
                         cls.validate_endpoint)
     ELSE /\ op' = "generate_field_raised"
          /\ result' = Raise("ValueError")
  /\ UNCHANGED <<cls, self_fields, form>>

GenerateForm(form_id, action, target, submit_text) ==
  /\ op' = "render_form"
  /\ arg' = ""
  /\ result' = generate_form(cls, self_fields, form_id, action, target,
                             StrV(<<"i", "n", "n", "e", "r", "H", "T", "M", "L">>), submit_text)
  /\ UNCHANGED <<cls, self_fields, form>>

GenerateFullHtml(title, form_id) ==
  /\ op' = "generate_full_html"
  /\ arg' = ""
  /\ result' = generate_full_html(cls, self_fields, title, form_id, StrV(<<"/", "s">>),
                                  StrV(<<"#", "r">>), StrV(<<"O", "K">>))
  /\ UNCHANGED <<cls, self_fields, form>>

ToHtml(is_valid, error_message) ==
  /\ op' = "to_html"
  /\ arg' = ""
  /\ result' = to_html([is_valid |-> is_valid, error_message |-> error_message])
  /\ UNCHANGED <<cls, self_fields, form>>

GenerateErrorResponse(is_valid, error_message) ==
  /\ op' = "generate_error_response"
  /\ arg' = ""
  /\ result' = generate_error_response(
                 <<<<self_fields[1].name,
                     [is_valid |-> is_valid, error_message |-> error_message]>>>>)
  /\ UNCHANGED <<cls, self_fields, form>>

RenderNext ==
  \/ \E field_name \in {f.name : f \in RenderedFields} : GenerateField(field_name)
  \/ \E form_id \in Texts \cup {None}, action \in Texts, target \in Texts, submit_text \in Texts :
       GenerateForm(form_id, action, target, submit_text)
  \/ \E title \in Texts, form_id \in Texts \cup {None} : GenerateFullHtml(title, form_id)
  \/ \E is_valid \in BOOLEAN, error_message \in Texts \cup {None} :
       ToHtml(is_valid, error_message)
  \/ \E is_valid \in BOOLEAN, error_message \in Texts \cup {None} :
       GenerateErrorResponse(is_valid, error_message)

RenderSpec == RenderInit /\ [][RenderNext]_vars

-----------------------------------------------------------------------------
(* Properties *)

\* data.get(name) of the submitted mapping
Submitted(name) == IF name \in DOMAIN form THEN form[name] ELSE None

\* missing, null or the empty string
Blank(v) == v.k = "null" \/ (v.k = "str" /\ v.s = <<>>)

Declared(name) == \E i \in 1..Len(M.fields) : M.fields[i].name = name

\* what the engine reports for the input validate_field builds
EngineErrors == model_validate(M, ValidationData(M, form))

\* the positions of the engine's errors located at the field
At(errors, name) == {i \in 1..Len(errors) : errors[i].loc # <<>> /\ errors[i].loc[1] = name}

\* C1: validate_field is invalid only for an unknown field, a required empty
\* field, or an engine error located at the field, whose message it then
\* carries; when every engine error lies at a sibling or has an empty loc, the
\* outcome is valid.
C1_OnlyOwnErrors ==
  op = "validate_field" =>
    /\ ~result.is_valid =>
         \/ ~Declared(arg)
         \/ FieldOf(M, arg).required /\ Blank(Submitted(arg))
         \/ \E i \in At(EngineErrors, arg) :
              result.error_message = HTMXValidator_translate_error(EngineErrors[i])
    /\ (Declared(arg) /\ ~Blank(Submitted(arg)) /\ At(EngineErrors, arg) = {}) => result.is_valid

\* a dummy value of an absent sibling makes the engine report an error at the
\* sibling, and the field is valid all the same
C1_Witness ==
  /\ op = "validate_field"
  /\ Declared(arg) /\ ~Blank(Submitted(arg))
  /\ \E i \in 1..Len(EngineErrors) :
       /\ EngineErrors[i].loc # <<>>
       /\ EngineErrors[i].loc[1] # arg
       /\ EngineErrors[i].loc[1] \notin DOMAIN form
  /\ result.is_valid

\* every field passes its own constraints and is filled in when required,
\* and the model_validator alone rejects the instance
OnlyRuleFails ==
  /\ AllFieldErrors(M, form) = <<>>
  /\ \A i \in 1..Len(M.fields) : M.fields[i].required => ~Blank(Submitted(M.fields[i].name))
  /\ RuleErrors(M, Instance(M, form)) # <<>>

\* C2: when only the whole-model rule fails, validate_field reports every
\* field valid and validate_and_parse returns no model.
C2_RuleOnlyInParse ==
  OnlyRuleFails =>
    /\ (op = "validate_field" /\ Declared(arg)) => result.is_valid
    /\ op = "validate_and_parse" => result.model = <<>>

C2_Witness ==
  /\ OnlyRuleFails
  /\ op = "validate_and_parse"
  /\ \A i \in 1..Len(result.results) : result.results[i][2].is_valid
  /\ result.model = <<>>

\* C3: validate_and_parse returns a model only when every outcome is valid and
\* the engine accepts the submitted data; with an invalid outcome it returns
\* None without asking the engine; its outcomes are those of validate_all.
C3_ParseOnlyWhenAllValid ==
  op = "validate_and_parse" =>
    /\ result.model # <<>> =>
         /\ \A i \in 1..Len(result.results) : result.results[i][2].is_valid
         /\ model_validate(M, form) = <<>>
         /\ result.full = <<form>>
    /\ (\E i \in 1..Len(result.results) : ~result.results[i][2].is_valid) =>
         result.model = <<>> /\ result.full = <<>>
    /\ result.results = validate_all(M, form).results

\* an outcome is invalid although the engine would accept the submitted data
C3_Witness ==
  /\ op = "validate_and_parse"
  /\ \E i \in 1..Len(result.results) : ~result.results[i][2].is_valid
  /\ model_validate(M, form) = <<>>
  /\ result.model = <<>>

\* C4: an empty value of a required field is invalid with the "required"
\* message, an empty value of a field that is not required is valid, and in
\* neither case is the engine asked.
C4_EmptyValues ==
  (op = "validate_field" /\ Declared(arg) /\ Blank(Submitted(arg))) =>
    /\ result.calls = <<>>
    /\ IF FieldOf(M, arg).required
       THEN ~result.is_valid /\ result.error_message = [text |-> "required", name |-> "", bound |-> <<>>]
       ELSE result.is_valid

\* an empty string the engine would reject for the type of the optional field
C4_Witness ==
  /\ op = "validate_field" /\ Declared(arg)
  /\ arg \in DOMAIN form /\ form[arg].k = "str" /\ form[arg].s = <<>>
  /\ ~FieldOf(M, arg).required
  /\ FieldErrors(FieldOf(M, arg), form[arg]) # <<>>
  /\ result.is_valid

\* C5: an undeclared field name gives an invalid outcome with the "unknown
\* field" message naming it, a message no declared field ever gets, and the
\* engine is not asked.
C5_UnknownField ==
  op = "validate_field" =>
    IF Declared(arg)
    THEN result.error_message.text # "unknown_field"
    ELSE /\ ~result.is_valid
         /\ result.error_message = [text |-> "unknown_field", name |-> arg, bound |-> <<>>]
         /\ result.calls = <<>>

C5_Witness ==
  /\ op = "validate_field"
  /\ ~Declared(arg)
  /\ \E name \in DOMAIN form : ~Blank(form[name])
  /\ ~result.is_valid

\* C6: with engine errors at the field, validate_field is invalid with the
\* translation of the first of them in the engine's order; in Scenario B name
\* gets the "required" message, age the below-minimum message with bound 0,
\* and validate_and_parse returns no model.
ScenarioB ==
  /\ cls = "SimpleModel"
  /\ DOMAIN form = {"name", "age"}
  /\ form["name"] = StrV(<<>>)
  /\ form["age"] = StrV(<<"-", "5">>)

C6_FirstOwnError ==
  /\ (op = "validate_field" /\ Declared(arg) /\ ~Blank(Submitted(arg)) /\ At(EngineErrors, arg) # {}) =>
       /\ ~result.is_valid
       /\ result.error_message =
            HTMXValidator_translate_error(
              EngineErrors[CHOOSE i \in At(EngineErrors, arg) : \A j \in At(EngineErrors, arg) : i <= j])
  /\ ScenarioB =>
       /\ (op = "validate_field" /\ arg = "name") =>
            ~result.is_valid /\ result.error_message.text = "required"
       /\ (op = "validate_field" /\ arg = "age") =>
            ~result.is_valid /\ result.error_message = [text |-> "at_least", name |-> "", bound |-> <<0>>]
       /\ op = "validate_and_parse" => result.model = <<>>

\* the engine reports two errors at the field, of different kinds
C6_Witness ==
  /\ op = "validate_field" /\ Declared(arg) /\ ~Blank(Submitted(arg))
  /\ \E i, j \in At(EngineErrors, arg) : i < j /\ EngineErrors[i].type # EngineErrors[j].type
  /\ ~result.is_valid

\* C7: validate_all returns one outcome per declared field, in declaration
\* order, each the outcome of validate_field for that field, and none of them
\* reports the failure of the whole-model rule.
C7_AllIsEachField ==
  op = "validate_all" =>
    /\ Len(result.results) = Len(M.fields)
    /\ \A i \in 1..Len(M.fields) :
         /\ result.results[i][1] = M.fields[i].name
         /\ result.results[i][2] = Outcome(validate_field(M, M.fields[i].name, form))
         /\ OnlyRuleFails => result.results[i][2].is_valid

C7_Witness ==
  /\ op = "validate_all"
  /\ OnlyRuleFails
  /\ Len(result.results) > 1
  /\ \A i \in 1..Len(result.results) : result.results[i][2].is_valid

\* the kind of a declared field, as the converter sees it
KindOf(name) == _detect_field_type(FieldOf(M, name).annotation)

\* C8: _convert_form_data never raises, and a value whose kind-specific
\* conversion fails appears unchanged in the converted mapping.
C8_NeverRaises ==
  op = "_convert_form_data" =>
    /\ result.exc = "none"
    /\ \A name \in DOMAIN form :
         (Declared(name) /\ ~Blank(form[name]) /\ ConvertByKind(form[name], KindOf(name)).exc # "none")
           => result.converted[name] = form[name]

\* C9: a declared field absent from the submitted mapping is converted to
\* false when it is a checkbox, required or not, and is left out otherwise.
C9_AbsentFields ==
  (op = "_convert_form_data" /\ result.exc = "none") =>
    \A i \in 1..Len(M.fields) :
      M.fields[i].name \notin DOMAIN form =>
        IF KindOf(M.fields[i].name) \in {"CHECKBOX", "BOOLEAN"}
        THEN /\ M.fields[i].name \in DOMAIN result.converted
             /\ result.converted[M.fields[i].name] = BoolV(FALSE)
        ELSE M.fields[i].name \notin DOMAIN result.converted

\* a required checkbox is absent and converted to false, while an absent
\* field of another kind is left out
C9_Witness ==
  /\ op = "_convert_form_data" /\ result.exc = "none"
  /\ \E i \in 1..Len(M.fields) :
       /\ M.fields[i].required
       /\ M.fields[i].name \notin DOMAIN form
       /\ KindOf(M.fields[i].name) = "CHECKBOX"
       /\ result.converted[M.fields[i].name] = BoolV(FALSE)
  /\ \E i \in 1..Len(M.fields) :
       /\ M.fields[i].name \notin DOMAIN form
       /\ M.fields[i].name \notin DOMAIN result.converted

\* C10: a present empty string or null is converted to null for a field that
\* is not required and passed through unchanged for a required one, whatever
\* the kind of the field.
C10_EmptyBeforeKind ==
  (op = "_convert_form_data" /\ result.exc = "none") =>
    \A name \in DOMAIN form :
      (Declared(name) /\ Blank(form[name])) =>
        result.converted[name] = IF FieldOf(M, name).required THEN form[name] ELSE None

\* a required checkbox submitted as the empty string stays the empty string
C10_Witness ==
  /\ op = "_convert_form_data" /\ result.exc = "none"
  /\ \E name \in DOMAIN form :
       /\ Declared(name)
       /\ KindOf(name) = "CHECKBOX"
       /\ FieldOf(M, name).required
       /\ form[name] = StrV(<<>>)
       /\ result.converted[name] = StrV(<<>>)

\* the strings a checkbox counts as checked
C11_Checked ==
  {<<"o", "n">>, <<"t", "r", "u", "e">>, <<"1">>, <<"y", "e", "s">>,
   <<"c", "h", "e", "c", "k", "e", "d">>}

\* C11: a present, non-empty value of a checkbox field is passed through when
\* it is a boolean; a string becomes true exactly when its lower-case form is
\* one of "on", "true", "1", "yes", "checked"; in Scenario C is_admin becomes
\* false when absent and true when submitted as "on".
C11_BooleanValues ==
  /\ (op = "_convert_value" /\ KindOf(arg) \in {"CHECKBOX", "BOOLEAN"} /\ ~Blank(form[arg])) =>
       /\ result.exc = "none"
       /\ form[arg].k = "bool" => result.val = form[arg]
       /\ form[arg].k = "str" =>
            result.val = [k |-> "bool", s |-> <<>>,
                          n |-> IF LowerStr(form[arg].s) \in C11_Checked THEN 1 ELSE 0]
  /\ (op = "_convert_form_data" /\ cls = "StatusModel" /\ result.exc = "none") =>
       /\ "is_admin" \notin DOMAIN form => result.converted["is_admin"] = BoolV(FALSE)
       /\ ("is_admin" \in DOMAIN form /\ form["is_admin"] = StrV(<<"o", "n">>)) =>
            result.converted["is_admin"] = BoolV(TRUE)

\* "ON" in capitals counts as checked
C11_Witness ==
  /\ op = "_convert_value"
  /\ KindOf(arg) = "CHECKBOX"
  /\ form[arg] = StrV(<<"O", "N">>)
  /\ result = Ok(BoolV(TRUE))

\* the Python type a kind parses to
C12_Target(kind) ==
  CASE kind = "INTEGER" -> "int"
    [] kind = "FLOAT" -> "float"
    [] kind = "DATE" -> "date"
    [] OTHER -> ""

ScenarioA ==
  /\ cls = "SimpleModel"
  /\ DOMAIN form = {"name", "age"}
  /\ form["name"] = StrV(<<"J", "o", "h", "n">>)
  /\ form["age"] = StrV(<<"2", "5">>)

\* C12: a present, non-empty value of an Integer, Float or Date field is
\* converted to a value of that kind or, when it does not parse, to the raw
\* value itself; in Scenario A the converted mapping is {name: "John",
\* age: 25} with age an integer, and the engine accepts it.
C12_ParsedOrRaw ==
  /\ (op = "_convert_value" /\ KindOf(arg) \in {"INTEGER", "FLOAT", "DATE"} /\ ~Blank(form[arg])) =>
       /\ result.exc = "none"
       /\ result.val.k = C12_Target(KindOf(arg)) \/ result.val = form[arg]
       /\ (KindOf(arg) = "INTEGER" /\ form[arg].k = "str" /\ IsIntLiteral(Strip(form[arg].s))) =>
            result.val = IntV(IntLiteralVal(Strip(form[arg].s)))
       /\ (KindOf(arg) = "DATE" /\ form[arg].k = "str" /\ IsIsoDate(form[arg].s)) =>
            result.val = DateV(IsoDateVal(form[arg].s))
  /\ (ScenarioA /\ op = "_convert_form_data") =>
       /\ result.exc = "none"
       /\ result.converted = [name |-> StrV(<<"J", "o", "h", "n">>), age |-> IntV(25)]
       /\ model_validate(M, result.converted) = <<>>

\* the kinds the round trip is stated for
C13_Kinds == {"STRING", "INTEGER", "FLOAT", "DATE", "SELECT"}

\* the Python type of the values of a kind
C13_Type(kind) ==
  CASE kind = "INTEGER" -> "int"
    [] kind = "FLOAT" -> "float"
    [] kind = "DATE" -> "date"
    [] OTHER -> "str"

\* v is a value the field accepts and holds as it is
C13_ValidFor(name, v) ==
  /\ FieldErrors(FieldOf(M, name), v) = <<>>
  /\ Validated(FieldOf(M, name), v) = v

\* C13 as stated: for a field of kind String, Integer, Float, Date or Select,
\* required or optional, and every value v valid for it, converting str(v)
\* yields a value equal to v.
C13_RoundTrip_AnyValue ==
  (op = "_convert_value" /\ KindOf(arg) \in C13_Kinds) =>
    \A v \in RawValues :
      (C13_ValidFor(arg, v) /\ PyStr(v) = form[arg]) => result = Ok(v)

\* C13, amended: for a field of kind String, Integer, Float, Date or Select,
\* required or optional, and every valid value v of the type of that kind
\* (str for String and Select, int, float, date), other than the empty
\* string for an optional field, converting str(v) yields a value equal to v.
C13_RoundTrip ==
  (op = "_convert_value" /\ KindOf(arg) \in C13_Kinds) =>
    \A v \in RawValues :
      ( /\ C13_ValidFor(arg, v)
        /\ v.k = C13_Type(KindOf(arg))
        /\ ~(v = StrV(<<>>) /\ ~FieldOf(M, arg).required)
        /\ PyStr(v) = form[arg] ) => result = Ok(v)

\* the string of a date submitted for an optional date field comes back as
\* the date
C13_Witness ==
  /\ op = "_convert_value"
  /\ KindOf(arg) = "DATE"
  /\ ~FieldOf(M, arg).required
  /\ C13_ValidFor(arg, DateV(20000101))
  /\ form[arg] = PyStr(DateV(20000101))
  /\ result = Ok(DateV(20000101))

\* C14: ModelParser.parse returns exactly one descriptor per declared field,
\* with pairwise distinct names, in the declaration order of the class.
C14_OneDescriptorPerField ==
  op = "parse" =>
    /\ Len(result) = Len(cls.fields)
    /\ \A i \in 1..Len(cls.fields) : result[i].name = cls.fields[i].name
    /\ \A i, j \in 1..Len(result) : i # j => result[i].name # result[j].name

\* the field named "second" was declared before the field named "first"
C14_Witness ==
  /\ op = "parse"
  /\ Len(result) = 2
  /\ result[1].name = "second"
  /\ result[2].name = "first"
  /\ result[1].field_type # result[2].field_type

\* the type with its wrappers taken off
C15_Bare(annotation) == [annotation EXCEPT !.wrap = <<>>, !.nullable = FALSE]

\* C15: whatever Annotated and T | None wrappers surround a type T, and in
\* whatever nesting order, the resolver gives the kind and the option list
\* it gives for bare T.
C15_SameAsBare ==
  op = "resolve" =>
    /\ result.field_type = _detect_field_type(C15_Bare(arg))
    /\ result.options = _extract_options(C15_Bare(arg))

\* the kind of a type without wrappers that is neither a Literal nor a
\* Select(...) type
C16_Kind(base) ==
  CASE base = "bool" -> "CHECKBOX"
    [] base = "int" -> "INTEGER"
    [] base = "float" -> "FLOAT"
    [] base = "date" -> "DATE"
    [] base = "str" -> "STRING"
    [] OTHER -> "STRING"

\* C16: the kind is a function of the type expression alone; a type without
\* wrappers resolves to checkbox for bool, Integer for int, Float for float,
\* Date for date, String for str and String for an unrecognized type; and
\* resolving the unwrapped type a first resolution arrived at gives the kind
\* the first resolution gave.
C16_KindTable ==
  (op \in {"resolve", "resolve_again"} /\ arg.wrap = <<>>) =>
    /\ arg.base \notin {"literal", "select"} => result.field_type = C16_Kind(arg.base)
    /\ op = "resolve_again" => result.field_type = form[1].resolved.field_type

\* Annotated[date | None, ...] was resolved first, then date
C16_Witness ==
  /\ op = "resolve_again"
  /\ form[1].annotation.wrap = <<"Annotated", "Union">>
  /\ arg.wrap = <<>>
  /\ arg.base = "date"
  /\ result.field_type = "DATE"
  /\ form[1].resolved.field_type = "DATE"

\* C17: a descriptor has a non-empty option list exactly when its kind is
\* Select; a field typed Literal of n values is a Select with n options in
\* the order of the literals, each with value and label the str() of the
\* literal.
C17_OptionsIffSelect ==
  op = "parse" =>
    \A i \in 1..Len(result) :
      /\ result[i].options # <<>> <=> result[i].field_type = "SELECT"
      /\ (cls.fields[i].annotation.base = "literal" /\ cls.fields[i].annotation.wrap = <<>>) =>
           /\ result[i].field_type = "SELECT"
           /\ Len(result[i].options) = Len(cls.fields[i].annotation.lits)
           /\ \A j \in 1..Len(result[i].options) :
                /\ result[i].options[j].value = PyStr(cls.fields[i].annotation.lits[j])
                /\ result[i].options[j].label = PyStr(cls.fields[i].annotation.lits[j])

\* C18: ge, le, gt and lt of a descriptor are set only when its kind is
\* Integer or Float.
C18_NumericOnly ==
  op = "parse" =>
    \A i \in 1..Len(result) :
      result[i].field_type \notin {"INTEGER", "FLOAT"} =>
        \A c \in result[i].constraints : c.c \notin {"ge", "le", "gt", "lt"}

\* the options of Select(["red", SelectOption("S"), SelectOption("M", "M-size")])
C19_Options ==
  <<[value |-> StrV(<<"r", "e", "d">>), label |-> StrV(<<"r", "e", "d">>)],
    [value |-> StrV(<<"S">>), label |-> StrV(<<"S">>)],
    [value |-> StrV(<<"M">>), label |-> StrV(<<"M", "-", "s", "i", "z", "e">>)]>>

\* C19: a field whose type is a Select(...) type has kind Select and the
\* options of the factory in their order; an option given as a bare string
\* or as a SelectOption without a label has its value as label.
C19_SelectFactory ==
  op = "parse" =>
    \A i \in 1..Len(result) :
      (cls.fields[i].annotation.base = "select" /\ cls.fields[i].annotation.wrap = <<>>) =>
        /\ result[i].field_type = "SELECT"
        /\ result[i].options = C19_Options

C19_Witness ==
  /\ op = "parse"
  /\ \E i \in 1..Len(result) :
       /\ cls.fields[i].annotation.base = "select"
       /\ cls.fields[i].annotation.wrap = <<>>
       /\ Len(result[i].options) = 3
       /\ result[i].options[2].label = StrV(<<"S">>)

\* C20 as stated: required holds exactly when the field has no default and
\* its type is not nullable, and the default is None whenever required holds.
C20_RequiredUnlessNullable ==
  op = "parse" =>
    \A i \in 1..Len(result) :
      /\ result[i].required <=>
           (cls.fields[i].default.k = "undefined" /\ ~cls.fields[i].annotation.nullable)
      /\ result[i].required => result[i].default = None

\* C20, amended: required holds exactly when the field has no default,
\* whether or not its type is nullable, and the default is None whenever
\* required holds.
C20_RequiredIffNoDefault ==
  op = "parse" =>
    \A i \in 1..Len(result) :
      /\ result[i].required <=> cls.fields[i].default.k = "undefined"
      /\ result[i].required => result[i].default = None

\* a nullable field declared without a default is required
C20_Witness ==
  /\ op = "parse"
  /\ \E i \in 1..Len(result) :
       /\ cls.fields[i].annotation.nullable
       /\ cls.fields[i].default.k = "undefined"
       /\ result[i].required
       /\ result[i].default = None

-----------------------------------------------------------------------------
(* Error wording, escaping and the agreement of the two paths *)

\* the taxonomy: the kind codes with a fixed template; the date kind covers
\* both codes the engine has for a date that cannot be parsed
C21_Templates ==
  [string_too_short |-> "too_short", string_too_long |-> "too_long",
   value_error |-> "invalid_value", type_error |-> "wrong_type", missing |-> "required",
   int_parsing |-> "enter_integer", float_parsing |-> "enter_number",
   bool_parsing |-> "enter_boolean", date_parsing |-> "enter_date",
   date_from_datetime_parsing |-> "enter_date",
   string_pattern_mismatch |-> "pattern_mismatch", greater_than_equal |-> "at_least",
   less_than_equal |-> "at_most", greater_than |-> "greater_than", less_than |-> "less_than"]

C21_RangeKinds == {"greater_than_equal", "less_than_equal", "greater_than", "less_than"}

C21_Template(error) ==
  IF error.type \in DOMAIN C21_Templates
  THEN [text |-> C21_Templates[error.type], name |-> "",
        bound |-> IF error.type \in C21_RangeKinds THEN <<error.ctx.v>> ELSE <<>>]
  ELSE [text |-> error.msg, name |-> "", bound |-> <<>>]

\* C21: the message of an engine error is given by its kind and its context
\* alone: the fixed template of the kind when the taxonomy has it, with the
\* bound of the context for the four range kinds, and the engine's raw message
\* for every other kind, in validate_field as in parse_safe.
C21_TranslationTable ==
  /\ (op = "validate_field" /\ Declared(arg) /\ ~result.is_valid /\ result.calls # <<>>) =>
       \E i \in At(EngineErrors, arg) : result.error_message = C21_Template(EngineErrors[i])
  /\ (op = "parse_safe" /\ result.exc = "none") =>
       \A name \in DOMAIN result.errors :
         \E i \in At(result.raised, name) : result.errors[name] = C21_Template(result.raised[i])

\* the entity a character is written as
C22_Entity(c) ==
  CASE c = "&" -> <<"&", "a", "m", "p", ";">>
    [] c = "<" -> <<"&", "l", "t", ";">>
    [] c = ">" -> <<"&", "g", "t", ";">>
    [] c = "\"" -> <<"&", "q", "u", "o", "t", ";">>
    [] c = "'" -> <<"&", "#", "x", "2", "7", ";">>
    [] OTHER -> <<c>>

\* the five replacements with & first: every character becomes its entity once
C22_Escaped(text) == StrV(Concat([i \in 1..Len(text.s) |-> C22_Entity(text.s[i])]))

\* the placeholders that take a text handed in by the caller or the schema
C22_Placeholders ==
  {"label", "description", "value", "pattern", "placeholder", "option_value", "option_label",
   "form_id", "action", "target", "submit_text", "validate_url", "title", "error_message",
   "field_name"}

\* C22: every text put into the generated HTML is written escaped: title,
\* description, default, pattern, placeholder, option value and label of a
\* field, form id, action, target, submit text and validation endpoint of a
\* form, the page title, the message of to_html, and the field name and
\* message of generate_error_response.
C22_AllEscaped ==
  op \in {"render_field", "render_form", "generate_full_html", "to_html",
          "generate_error_response"} =>
    \A i \in 1..Len(result) :
      result[i].placeholder \in C22_Placeholders =>
        result[i].written = C22_Escaped(PyStr(result[i].text))

\* the calls of FormDataParser and HTMXValidator
C23_Calls ==
  {"validate_field", "validate_all", "validate_and_parse", "_convert_form_data",
   "_convert_value", "parse_safe"}

\* the calls of FormGenerator
C23_GeneratorCalls ==
  {"render_field", "generate_field_raised", "render_form", "generate_full_html"}

\* what the call gives on an instance constructed for it from the class
C23_Fresh(call, a, class, data) ==
  LET m == SchemaOf(class)
      fresh == ModelParser_parse(m) \o <<>>
  IN  CASE call = "validate_field" -> validate_field(m, a, data)
        [] call = "validate_all" -> validate_all(m, data)
        [] call = "validate_and_parse" -> validate_and_parse(m, data)
        [] call = "_convert_form_data" -> _convert_form_data(fresh, data)
        [] call = "_convert_value" ->
             _convert_value(data[a], fresh[CHOOSE i \in 1..Len(fresh) : fresh[i].name = a])
        [] call = "parse_safe" -> parse_safe(fresh, m, data)

C24_Alone(name) == [k \in DOMAIN form \cap {name} |-> form[k]]

\* C24: the validity and the message validate_field gives for a declared
\* field are those it gives for the mapping that holds this field alone, so
\* two mappings with the same value (or absence) for the field give the same,
\* whatever their other fields are.
C24_OwnValueOnly ==
  (op = "validate_field" /\ Declared(arg)) =>
    Outcome(result) = Outcome(validate_field(M, arg, C24_Alone(arg)))

\* the field and a submitted sibling are both rejected by the engine, and the
\* message is the field's own
C24_Witness ==
  /\ op = "validate_field" /\ Declared(arg) /\ ~Blank(Submitted(arg))
  /\ ~result.is_valid
  /\ \E i \in 1..Len(EngineErrors) :
       /\ EngineErrors[i].loc # <<>>
       /\ EngineErrors[i].loc[1] # arg
       /\ EngineErrors[i].loc[1] \in DOMAIN form
       /\ HTMXValidator_translate_error(EngineErrors[i]) # result.error_message

\* C25: parse_safe returns the instance with an empty error map, or None
\* with an error map of at least one entry, also when the only error is that
\* of a whole-model rule.
C25_InstanceOrErrors ==
  (op = "parse_safe" /\ result.exc = "none") =>
    \/ result.model # <<>> /\ DOMAIN result.errors = {}
    \/ result.model = <<>> /\ DOMAIN result.errors # {}

\* C26: whenever parse_safe returns an instance, validate_all reports every
\* field of the same mapping valid and validate_and_parse returns a model.
C26_PathsAgree ==
  (op = "parse_safe" /\ result.exc = "none" /\ result.model # <<>>) =>
    /\ \A i \in 1..Len(validate_all(M, form).results) :
         validate_all(M, form).results[i][2].is_valid
    /\ validate_and_parse(M, form).model # <<>>

\* C27: when every outcome of validate_and_parse is valid, the engine has no
\* field-level error for the same raw data: only the whole-model rule can make
\* it return None.
C27_OnlyRuleCanFail ==
  (op = "validate_and_parse" /\ \A i \in 1..Len(result.results) : result.results[i][2].is_valid) =>
    \A j \in 1..Len(model_validate(M, form)) : model_validate(M, form)[j].loc = <<>>

\* C28: the two copies of _translate_error give every error the engine
\* reports the same message, whether it is reported to parse_safe or to
\* validate_field.
C28_SameWording ==
  /\ (op = "parse_safe" /\ result.exc = "none") =>
       \A i \in 1..Len(result.raised) :
         FormDataParser_translate_error(result.raised[i])
           = HTMXValidator_translate_error(result.raised[i])
  /\ (op = "validate_field" /\ Declared(arg)) =>
       \A i \in 1..Len(EngineErrors) :
         FormDataParser_translate_error(EngineErrors[i])
           = HTMXValidator_translate_error(EngineErrors[i])

\* the first of the errors located at the field, in the engine's order
C29_First(errors, name) ==
  errors[CHOOSE i \in At(errors, name) : \A j \in At(errors, name) : i <= j]

\* C29: for every field of the error map of parse_safe, the message is the
\* translation of the first error the engine reports at that field.
C29_FirstErrorKept ==
  (op = "parse_safe" /\ result.exc = "none") =>
    \A name \in DOMAIN result.errors :
      result.errors[name] = FormDataParser_translate_error(C29_First(result.raised, name))

\* C30: the converted mapping, and so the input of the full-model validation
\* of parse_safe, has declared field names as its keys only, a submitted key
\* that is no field is left out, and every declared field of the submitted
\* mapping is among them.
C30_DeclaredKeysOnly ==
  /\ (op = "_convert_form_data" /\ result.exc = "none") =>
       /\ DOMAIN result.converted \subseteq FieldNameSet(M)
       /\ DOMAIN form \cap FieldNameSet(M) \subseteq DOMAIN result.converted
  /\ (op = "parse_safe" /\ result.full # <<>>) =>
       /\ DOMAIN result.full[1] \subseteq FieldNameSet(M)
       /\ DOMAIN form \cap FieldNameSet(M) \subseteq DOMAIN result.full[1]

\* the key of the validation hook is submitted with a field, and the engine
\* is given the field without it
C30_Witness ==
  /\ op = "parse_safe" /\ result.full # <<>>
  /\ HookKey \in DOMAIN form /\ HookKey \notin FieldNameSet(M)
  /\ HookKey \notin DOMAIN result.full[1]
  /\ DOMAIN form \cap DOMAIN result.full[1] # {}

====
